---- MODULE Spec2Model ----
(***************************************************************************)
(* A model of src/stu/main.py: a Streamlit page script over one SQLite     *)
(* connection that every browser session shares.                           *)
(*                                                                         *)
(* A browser session runs the script top to bottom once per interaction    *)
(* (a "page run"); the runs of different sessions execute on different     *)
(* threads and interleave between two calls on the shared connection.      *)
(* Every conn.execute, commit and rollback is one step of the model.       *)
(*                                                                         *)
(* The connection holds ONE transaction for all sessions: db is what any   *)
(* statement on the connection sees, committed is what a rollback returns  *)
(* to.  get_connection never issues PRAGMA foreign_keys = ON, so SQLite    *)
(* leaves the FOREIGN KEY clauses of the schema unenforced.                *)
(***************************************************************************)
EXTENDS Integers, Sequences, FiniteSets, TLC

VARIABLES
    db,         \* the tables as seen through the shared connection
    committed,  \* the tables as of the last COMMIT
    now,        \* the clock read by datetime('now') and date.today()
    session,    \* st.session_state of each browser session
    page,       \* what each browser shows: the widgets of its last page run
    pc,         \* where each session's page run stands
    loc,        \* the local variables of each session's page run
    deleted_with_history,
                \* history: the usernames whose StudentRecord was deleted while
                \* it had attendance rows or documents
    edit_contact
                \* st.session_state's edit_contact_{username} keys: per session,
                \* the usernames whose key is True

vars == <<db, committed, now, session, page, pc, loc, deleted_with_history, edit_contact>>

\* ------------------------------------------------------------------ bounds
MaxNow == 1
MaxAttendanceId == 2
MaxNoteId == 2

\* ------------------------------------------------------- inputs and values
Sessions == {"s1", "s2"}
UsernameInputs == {"admin", "sara"}
PasswordInputs == {"admin123", "sara2024"}
UpdatePasswordInputs == {"", "admin123"}
Statuses == {"present", "absent"}
NoFile == [name |-> "", type |-> "", data |-> ""]
FileInputs ==
    { NoFile,
      [name |-> "notes.txt", type |-> "", data |-> ""],
      [name |-> "notes.txt", type |-> "", data |-> "bytes"] }

\* What a student types into the contact form.
EmailInputs == {"", "sara@example.com"}
PhoneInputs == {"", "(555) 010-9999"}

\* Python's None where the code holds an optional string.
None == "None"

\* ------------------------------------------------------------ module data
DEFAULT_ADMIN ==
    [username |-> "admin", password |-> "admin123", full_name |-> "Administrator"]

DEFAULT_STUDENTS ==
    << [username |-> "sara", password |-> "sara2024",
        full_name |-> "Sara Hernandez", email |-> "sara.hernandez@example.com",
        program |-> "Computer Science", phone |-> "(555) 010-1111",
        notes |-> "Robotics club president."],
       [username |-> "dylan", password |-> "dylan2024",
        full_name |-> "Dylan Chen", email |-> "dylan.chen@example.com",
        program |-> "Mechanical Engineering", phone |-> "(555) 010-2222",
        notes |-> "Co-op placement at Horizon Industries."],
       [username |-> "lina", password |-> "lina2024",
        full_name |-> "Lina Patel", email |-> "lina.patel@example.com",
        program |-> "Business Administration", phone |-> "(555) 010-3333",
        notes |-> "Dean's list for two consecutive years."] >>

\* ------------------------------------------------------------------ clock
\* date.today().strftime("%Y-%m-%d"): the calendar day of the instant t.  The
\* clock starts at the last instant of day 0; every later day has two.
today_str(t) == (t + 1) \div 2

\* ------------------------------------------------------------- the tables
\* A database file in which init_db has not yet created a row.
EmptyStore ==
    [admins |-> {}, students |-> {}, student_notes |-> {}, attendance |-> {},
     seq_notes |-> 0, seq_attendance |-> 0]

\* PRAGMA foreign_keys of the connection get_connection returns: SQLite's
\* default, which the code never changes.
foreign_keys == FALSE

StudentRows(d, username) == {r \in d.students : r.username = username}
Usernames(d) == {r.username : r \in d.students}

\* INSERT OR IGNORE INTO admins: the primary key keeps an existing row.
InsertOrIgnoreAdmin(d, row) ==
    IF \E r \in d.admins : r.username = row.username
    THEN d
    ELSE [d EXCEPT !.admins = @ \cup {row}]

\* INSERT INTO students raises IntegrityError on a taken primary key.
StudentInsertFails(d, row) == \E r \in d.students : r.username = row.username
InsertStudent(d, row) == [d EXCEPT !.students = @ \cup {row}]

\* The rows a DELETE FROM students takes with it: ON DELETE CASCADE acts only
\* on a connection that enforces foreign keys.
Cascade(rows, username) ==
    IF foreign_keys THEN {r \in rows : r.student_username # username} ELSE rows

\* DELETE FROM students WHERE username = ?
DeleteStudentRow(d, username) ==
    [d EXCEPT !.students = {r \in @ : r.username # username},
              !.student_notes = Cascade(@, username),
              !.attendance = Cascade(@, username)]

\* SELECT ... FROM students ORDER BY username: the usernames on offer in the
\* administrator's select boxes.
fetch_students(d) == Usernames(d)

\* SELECT ... FROM students WHERE username = ?: the row, or nothing.
fetch_student(d, username) ==
    IF StudentRows(d, username) = {}
    THEN << >>
    ELSE << CHOOSE r \in StudentRows(d, username) : TRUE >>

\* SELECT full_name FROM admins WHERE username = ? AND password = ?
authenticate_admin(d, username, password) ==
    LET hit == {r \in d.admins : r.username = username /\ r.password = password}
    IN  IF hit = {} THEN None ELSE (CHOOSE r \in hit : TRUE).full_name

authenticate_student(d, username, password) ==
    LET record == fetch_student(d, username)
    IN  IF record # << >> /\ record[1].password = password THEN record ELSE << >>

\* ORDER BY attendance_date DESC
RECURSIVE OrderByDateDesc(_)
OrderByDateDesc(rows) ==
    IF rows = {} THEN << >>
    ELSE LET first == CHOOSE r \in rows :
                          \A q \in rows : q.attendance_date <= r.attendance_date
         IN  <<first>> \o OrderByDateDesc(rows \ {first})

\* SELECT attendance_date, status, marked_at FROM attendance
\* WHERE student_username = ? ORDER BY attendance_date DESC
fetch_attendance(d, username) ==
    LET ordered == OrderByDateDesc({r \in d.attendance : r.student_username = username})
    IN  [i \in DOMAIN ordered |->
            [attendance_date |-> ordered[i].attendance_date,
             status |-> ordered[i].status, marked_at |-> ordered[i].marked_at]]

\* ORDER BY uploaded_at DESC, id DESC
RECURSIVE OrderByUploadedDesc(_)
OrderByUploadedDesc(rows) ==
    IF rows = {} THEN << >>
    ELSE LET first == CHOOSE r \in rows : \A q \in rows :
                          \/ q.uploaded_at < r.uploaded_at
                          \/ q.uploaded_at = r.uploaded_at /\ q.id <= r.id
         IN  <<first>> \o OrderByUploadedDesc(rows \ {first})

\* SELECT id, title, file_name, mime_type, data, uploaded_at FROM student_notes
\* WHERE student_username = ? ORDER BY uploaded_at DESC, id DESC
fetch_student_notes(d, username) ==
    LET ordered == OrderByUploadedDesc({r \in d.student_notes : r.student_username = username})
    IN  [i \in DOMAIN ordered |->
            [id |-> ordered[i].id, title |-> ordered[i].title,
             file_name |-> ordered[i].file_name, mime_type |-> ordered[i].mime_type,
             data |-> ordered[i].data, uploaded_at |-> ordered[i].uploaded_at]]

\* Whether username has an attendance row or a document.
HasHistory(d, username) ==
    fetch_attendance(d, username) # << >> \/ fetch_student_notes(d, username) # << >>

\* ---------------------------------------------------- session and page run
\* init_state: the three keys a new session gets.
NewSession == [authenticated |-> FALSE, role |-> None, current_user |-> None]

\* The locals of a page run.  event is the widget that started the run:
\* "pending" until main first consults a widget, "none" in a run started by
\* st.rerun() or by a plain reload.
NoLocals ==
    [event |-> "none", a |-> "", b |-> "", todo |-> << >>, op |-> "",
     username |-> "", updates |-> << >>, today |-> 0, note_id |-> 0, at |-> 0]

\* The store once the first page run of the deployment has been through
\* init_db: the default admin and the default students, committed.
Seeded(d) ==
    [d EXCEPT !.admins = {DEFAULT_ADMIN},
              !.students = {DEFAULT_STUDENTS[i] : i \in DOMAIN DEFAULT_STUDENTS}]

Init ==
    /\ db = Seeded(EmptyStore)
    /\ committed = Seeded(EmptyStore)
    /\ now = 0
    /\ session = [s \in Sessions |-> NewSession]
    /\ page = [s \in Sessions |-> "blank"]
    /\ pc = [s \in Sessions |-> "idle"]
    /\ loc = [s \in Sessions |-> NoLocals]
    /\ deleted_with_history = {}
    /\ edit_contact = [s \in Sessions |-> {}]

\* The user loads the page or works a widget of the page shown: the script
\* starts from the top, and init_db's first statement that can change a row
\* is INSERT OR IGNORE INTO admins (the CREATE TABLE IF NOT EXISTS before it
\* change none).
Interact(s) ==
    /\ pc[s] = "idle"
    /\ db' = InsertOrIgnoreAdmin(db, DEFAULT_ADMIN)
    /\ pc' = [pc EXCEPT ![s] = "init_select"]
    /\ loc' = [loc EXCEPT ![s] = [NoLocals EXCEPT !.event = "pending"]]
    /\ UNCHANGED <<committed, now, session, page, deleted_with_history, edit_contact>>

\* The page run ends and the browser shows p.
Shows(s, p) ==
    /\ pc' = [pc EXCEPT ![s] = "idle"]
    /\ loc' = [loc EXCEPT ![s] = NoLocals]
    /\ page' = [page EXCEPT ![s] = p]

\* st.rerun(): the run stops here and the script starts again with no event.
Reruns(s) ==
    /\ pc' = [pc EXCEPT ![s] = "init_db"]
    /\ loc' = [loc EXCEPT ![s] = NoLocals]
    /\ UNCHANGED page

Tick ==
    /\ now < MaxNow
    /\ now' = now + 1
    /\ UNCHANGED <<db, committed, session, page, pc, loc, deleted_with_history, edit_contact>>

\* ---------------------------------------------------------------- init_db
\* The same first statement in a run that st.rerun() started.
InitDbAdmin(s) ==
    /\ pc[s] = "init_db"
    /\ db' = InsertOrIgnoreAdmin(db, DEFAULT_ADMIN)
    /\ pc' = [pc EXCEPT ![s] = "init_select"]
    /\ UNCHANGED <<committed, now, session, page, loc, deleted_with_history, edit_contact>>

\* existing_usernames, kept as the default students the loop will insert.
SeedTodo(d) ==
    SelectSeq(DEFAULT_STUDENTS, LAMBDA st : st.username \notin Usernames(d))

InitDbSelect(s) ==
    /\ pc[s] = "init_select"
    /\ loc' = [loc EXCEPT ![s].todo = SeedTodo(db)]
    /\ pc' = [pc EXCEPT ![s] = IF SeedTodo(db) = << >> THEN "init_commit" ELSE "init_seed"]
    /\ UNCHANGED <<db, committed, now, session, page, deleted_with_history, edit_contact>>

\* One INSERT of the seeding loop; a row another session inserted since the
\* SELECT makes it raise, which leaves the with-block by its rollback.
InitDbSeed(s) ==
    /\ pc[s] = "init_seed"
    /\ LET student == Head(loc[s].todo) IN
        IF StudentInsertFails(db, student)
        THEN /\ pc' = [pc EXCEPT ![s] = "init_rollback"]
             /\ UNCHANGED <<db, loc>>
        ELSE /\ db' = InsertStudent(db, student)
             /\ loc' = [loc EXCEPT ![s].todo = Tail(@)]
             /\ pc' = [pc EXCEPT ![s] =
                          IF Tail(loc[s].todo) = << >> THEN "init_commit" ELSE "init_seed"]
    /\ UNCHANGED <<committed, now, session, page, deleted_with_history, edit_contact>>

\* init_db lets the exception escape: the with-block rolls back and the run
\* dies on the exception, before any widget is drawn.
InitDbRollback(s) ==
    /\ pc[s] = "init_rollback"
    /\ db' = committed
    /\ Shows(s, "error")
    /\ UNCHANGED <<committed, now, session, deleted_with_history, edit_contact>>

\* ------------------------------------------------------------------- main
\* The widgets a page offers, by the event their use starts a run with.
Offers(p) ==
    CASE p = "login" -> {"login"}
      [] p = "admin" -> {"add", "update", "delete", "upload", "delete_note", "logout"}
      [] p = "student" -> {"mark", "edit", "contact", "logout"}
      [] p = "student_marked" -> {"edit", "contact", "logout"}
      [] p = "missing" -> {"logout"}
      [] OTHER -> {}

\* The contact form is on the student's page: it is drawn when the page is
\* drawn with the student's edit_contact key True, and the key is changed
\* only by a run that goes on to draw the page.
FormDrawn(s) == session[s].current_user \in edit_contact[s]

\* The page runs that are on their way to a statement that takes a new id.
InFlight(kind) == Cardinality({s \in Sessions : loc[s].event = kind})

\* The ids the model lets AUTOINCREMENT hand out are bounded.
WithinBounds(kind) ==
    CASE kind = "mark" -> db.seq_attendance + InFlight("mark") < MaxAttendanceId
      [] kind = "upload" -> db.seq_notes + InFlight("upload") < MaxNoteId
      [] OTHER -> TRUE

\* What the user typed into the form whose button started the run: the login
\* form's username and password, the add form's username and password.
FormInputs(kind, NewPasswords) ==
    CASE kind = "login" -> UsernameInputs \X PasswordInputs
      [] kind = "add" -> (UsernameInputs \cup {""}) \X (NewPasswords \cup {""})
      [] kind = "contact" -> EmailInputs \X PhoneInputs
      [] OTHER -> {<<"", "">>}

\* Where main sends the run once init_state has returned.
main(sess) ==
    IF ~sess.authenticated THEN "render_login"
    ELSE IF sess.role = "admin" THEN "render_admin_dashboard"
    ELSE IF sess.role = "student" THEN "render_student_dashboard"
    ELSE "unknown_role"

\* init_db's with-block exits by conn.commit(), init_state keeps the session
\* keys, and main dispatches on them.  Kinds are the widgets the users work,
\* NewPasswords the passwords administrators give new students.
InitDbCommit(s, Kinds, NewPasswords) ==
    /\ pc[s] = "init_commit"
    /\ committed' = db
    /\ pc' = [pc EXCEPT ![s] = main(session[s])]
    /\ IF loc[s].event = "pending"
       THEN \E kind \in (Offers(page[s]) \cap Kinds) \cup {"none"} :
            \E form \in FormInputs(kind, NewPasswords) :
               /\ WithinBounds(kind)
               /\ kind = "contact" => FormDrawn(s)
               /\ loc' = [loc EXCEPT ![s].event = kind, ![s].a = form[1], ![s].b = form[2]]
       ELSE UNCHANGED loc
    /\ UNCHANGED <<db, now, session, page, deleted_with_history, edit_contact>>

\* The with-block of a caller that returns None: conn.commit(); every such
\* caller then calls st.rerun().
Commit(s) ==
    /\ pc[s] = "commit"
    /\ committed' = db
    /\ Reruns(s)
    /\ UNCHANGED <<db, now, session, deleted_with_history, edit_contact>>

\* The with-block of a caller that catches the exception: conn.rollback();
\* the caller shows the error and the run goes on to draw its page.
Rollback(s) ==
    /\ pc[s] = "rollback"
    /\ db' = committed
    /\ Shows(s, IF loc[s].op = "mark_attendance" THEN "student" ELSE "admin")
    /\ UNCHANGED <<committed, now, session, deleted_with_history, edit_contact>>

\* A logout that forgets to reset the authenticated key.
LogoutKeepsAuthenticated(s) ==
    /\ session' = [session EXCEPT ![s].role = None, ![s].current_user = None]
    /\ Reruns(s)

\* logout(): the three keys are reset and the script reruns.
logout(s) ==
    /\ session' = [session EXCEPT ![s] = NewSession]
    /\ Reruns(s)

\* ----------------------------------------------------------- render_login
\* The form was not submitted: the login page is drawn.
RenderLogin(s) ==
    /\ pc[s] = "render_login"
    /\ loc[s].event # "login"
    /\ Shows(s, "login")
    /\ UNCHANGED <<db, committed, now, session, deleted_with_history, edit_contact>>

\* The two lookups in the other order: authenticate_student first, and
\* authenticate_admin only when no student matches.
LoginStudentFirst(s) ==
    /\ pc[s] = "render_login"
    /\ loc[s].event = "login"
    /\ IF authenticate_student(db, loc[s].a, loc[s].b) # << >>
       THEN /\ session' = [session EXCEPT ![s] =
                   [authenticated |-> TRUE, role |-> "student", current_user |-> loc[s].a]]
            /\ Reruns(s)
       ELSE IF authenticate_admin(db, loc[s].a, loc[s].b) # None
       THEN /\ session' = [session EXCEPT ![s] =
                   [authenticated |-> TRUE, role |-> "admin",
                    current_user |-> authenticate_admin(db, loc[s].a, loc[s].b)]]
            /\ Reruns(s)
       ELSE /\ Shows(s, "login")
            /\ UNCHANGED session
    /\ UNCHANGED <<db, committed, now, deleted_with_history, edit_contact>>

\* if submitted: authenticate_admin first.
LoginAdmin(s) ==
    /\ pc[s] = "render_login"
    /\ loc[s].event = "login"
    /\ LET admin_name == authenticate_admin(db, loc[s].a, loc[s].b) IN
        IF admin_name # None
        THEN /\ session' = [session EXCEPT ![s] =
                    [authenticated |-> TRUE, role |-> "admin", current_user |-> admin_name]]
             /\ Reruns(s)
        ELSE /\ pc' = [pc EXCEPT ![s] = "login_student"]
             /\ UNCHANGED <<session, page, loc>>
    /\ UNCHANGED <<db, committed, now, deleted_with_history, edit_contact>>

\* Only then authenticate_student; no match draws the login page again.
LoginStudent(s) ==
    /\ pc[s] = "login_student"
    /\ LET student_record == authenticate_student(db, loc[s].a, loc[s].b) IN
        IF student_record # << >>
        THEN /\ session' = [session EXCEPT ![s] =
                    [authenticated |-> TRUE, role |-> "student", current_user |-> loc[s].a]]
             /\ Reruns(s)
        ELSE /\ Shows(s, "login")
             /\ UNCHANGED session
    /\ UNCHANGED <<db, committed, now, deleted_with_history, edit_contact>>

\* ------------------------------------------------- render_admin_dashboard
StudentRow(username, password, full_name, email, program, phone, notes) ==
    [username |-> username, password |-> password, full_name |-> full_name,
     email |-> email, program |-> program, phone |-> phone, notes |-> notes]

\* x or default
Or(x, default) == IF x = "" THEN default ELSE x

\* The payload the "Add Student" form hands to add_student.
AddPayload(new_username, new_password, full_name, email, program, phone) ==
    StudentRow(new_username, new_password, Or(full_name, "Unnamed Student"),
               Or(email, "Not provided"), Or(program, "Undeclared"), phone, "")

\* UPDATE students SET <the keys of updates> WHERE username = :username
UpdateStudentRow(d, username, updates) ==
    [d EXCEPT !.students =
        {IF r.username = username
         THEN [f \in DOMAIN r |-> IF f \in DOMAIN updates THEN updates[f] ELSE r[f]]
         ELSE r : r \in @}]

\* INSERT INTO student_notes: AUTOINCREMENT takes the id after the largest
\* one ever handed out; uploaded_at defaults to datetime('now').
NoteInsertFails(d, username) == foreign_keys /\ StudentRows(d, username) = {}
InsertNote(d, username, title, file, t) ==
    [d EXCEPT !.seq_notes = @ + 1,
              !.student_notes = @ \cup
                 {[id |-> d.seq_notes + 1, student_username |-> username,
                   title |-> title, file_name |-> file.name,
                   mime_type |-> Or(file.type, "application/octet-stream"),
                   data |-> file.data, uploaded_at |-> t]}]

\* A DELETE FROM student_notes without its WHERE clause.
DeleteEveryNote(d, note_id) ==
    [d EXCEPT !.student_notes = {}]

\* DELETE FROM student_notes WHERE id = ?
DeleteNoteRow(d, note_id) ==
    [d EXCEPT !.student_notes = {r \in @ : r.id # note_id}]

\* SELECT ... FROM student_notes WHERE student_username = ?, as a set of rows.
NoteRows(d, username) == {r \in d.student_notes : r.student_username = username}

\* The dashboard with no widget of it worked: the page is drawn.
RenderAdminDashboard(s) ==
    /\ pc[s] = "render_admin_dashboard"
    /\ loc[s].event \notin Offers("admin")
    /\ Shows(s, "admin")
    /\ UNCHANGED <<db, committed, now, session, deleted_with_history, edit_contact>>

\* if add_submitted: the required fields, then fetch_student(new_username).
AddSubmitted(s) ==
    /\ pc[s] = "render_admin_dashboard"
    /\ loc[s].event = "add"
    /\ IF loc[s].a = "" \/ loc[s].b = "" \/ fetch_student(db, loc[s].a) # << >>
       THEN Shows(s, "admin")
       ELSE /\ pc' = [pc EXCEPT ![s] = "add_student"]
            /\ UNCHANGED <<page, loc>>
    /\ UNCHANGED <<db, committed, now, session, deleted_with_history, edit_contact>>

\* add_student: the INSERT inside the with-block.
AddStudent(s) ==
    /\ pc[s] = "add_student"
    /\ LET payload == AddPayload(loc[s].a, loc[s].b, "", "", "", "") IN
        IF StudentInsertFails(db, payload)
        THEN /\ pc' = [pc EXCEPT ![s] = "rollback"]
             /\ UNCHANGED db
        ELSE /\ db' = InsertStudent(db, payload)
             /\ pc' = [pc EXCEPT ![s] = "commit"]
    /\ loc' = [loc EXCEPT ![s].op = "add_student"]
    /\ UNCHANGED <<committed, now, session, page, deleted_with_history, edit_contact>>

\* students = fetch_students() and the select box over it: the Manage and the
\* Academic Notes tab alike.  The administrator picks among SelectInputs.
SelectStudent(s) ==
    /\ pc[s] = "render_admin_dashboard"
    /\ loc[s].event \in {"update", "delete", "upload", "delete_note"}
    /\ IF fetch_students(db) \cap UsernameInputs = {}
       THEN Shows(s, "admin")
       ELSE \E selected_username \in fetch_students(db) \cap UsernameInputs :
               /\ loc' = [loc EXCEPT ![s].username = selected_username]
               /\ pc' = [pc EXCEPT ![s] = "fetch_selected"]
               /\ UNCHANGED page
    /\ UNCHANGED <<db, committed, now, session, deleted_with_history, edit_contact>>

\* The values of the update form: the fields as fetched, and a new password
\* or none.
UpdateForm(selected_student, edit_password) ==
    LET updates == [f \in {"full_name", "email", "program", "phone", "notes"}
                       |-> selected_student[f]]
    IN  IF edit_password # "" THEN updates @@ [password |-> edit_password] ELSE updates

\* selected_student = fetch_student(selected_username), then the widget
\* below it that started the run.
FetchSelected(s) ==
    /\ pc[s] = "fetch_selected"
    /\ UNCHANGED <<db, committed, now, session, deleted_with_history, edit_contact>>
    /\ LET selected_student == fetch_student(db, loc[s].username) IN
        IF selected_student = << >>
        THEN Shows(s, "admin")
        ELSE CASE loc[s].event = "update" ->
                    \E edit_password \in UpdatePasswordInputs :
                       /\ loc' = [loc EXCEPT ![s].updates =
                                     UpdateForm(selected_student[1], edit_password)]
                       /\ pc' = [pc EXCEPT ![s] = "update_student"]
                       /\ UNCHANGED page
               [] loc[s].event = "delete" ->
                    /\ pc' = [pc EXCEPT ![s] = "delete_student"]
                    /\ UNCHANGED <<page, loc>>
               [] loc[s].event = "upload" ->
                    \E uploaded_note \in FileInputs :
                       IF uploaded_note = NoFile
                       THEN Shows(s, "admin")
                       ELSE /\ loc' = [loc EXCEPT ![s].a = uploaded_note.name,
                                                  ![s].b = uploaded_note.data]
                            /\ pc' = [pc EXCEPT ![s] = "add_student_note"]
                            /\ UNCHANGED page
               [] OTHER ->
                    /\ pc' = [pc EXCEPT ![s] = "fetch_student_notes"]
                    /\ UNCHANGED <<page, loc>>

\* The statement's parameters left as the caller's patch gave them.
PatchParameters(username, updates) == updates

\* updates["username"] = username: the parameters the UPDATE is executed
\* with, :username bound to the target whatever the patch held under that
\* key.
BoundParameters(username, updates) ==
    [f \in DOMAIN updates \cup {"username"} |->
        IF f = "username" THEN username ELSE updates[f]]

\* An update that writes the whole record: the fields the patch leaves out
\* are blanked.
ReplaceStudent(d, username, updates) ==
    [store |-> [d EXCEPT !.students =
                   {IF r.username = username
                    THEN [f \in DOMAIN r |->
                            IF f \in DOMAIN updates THEN updates[f]
                            ELSE IF f = "username" THEN r[f] ELSE ""]
                    ELSE r : r \in @}],
     executed |-> TRUE, error |-> None]

\* update_student(username, updates): with no updates it returns None before
\* it touches the connection; otherwise the UPDATE, which assigns the keys
\* the patch came with, each from the parameter of its name, and whose
\* result is None whether or not a row matched.  store is the tables after
\* the statement, executed whether a statement ran, error the value returned.
update_student(d, username, updates) ==
    IF DOMAIN updates = {}
    THEN [store |-> d, executed |-> FALSE, error |-> None]
    ELSE [store |-> UpdateStudentRow(d, username,
                        [key \in DOMAIN updates |-> BoundParameters(username, updates)[key]]),
          executed |-> TRUE, error |-> None]

\* update_student up to the commit of its with-block; the caller of a call
\* that returned None reports success and reruns.
UpdateStudent(s) ==
    /\ pc[s] = "update_student"
    /\ LET call == update_student(db, loc[s].username, loc[s].updates) IN
        /\ db' = call.store
        /\ IF call.executed
           THEN /\ pc' = [pc EXCEPT ![s] = "commit"]
                /\ loc' = [loc EXCEPT ![s].op = "update_student"]
                /\ UNCHANGED page
           ELSE Reruns(s)
    /\ UNCHANGED <<committed, now, session, deleted_with_history, edit_contact>>

\* delete_student: the DELETE inside the with-block.
DeleteStudent(s) ==
    /\ pc[s] = "delete_student"
    /\ db' = DeleteStudentRow(db, loc[s].username)
    /\ pc' = [pc EXCEPT ![s] = "commit"]
    /\ loc' = [loc EXCEPT ![s].op = "delete_student"]
    /\ deleted_with_history' =
          IF /\ StudentRows(db, loc[s].username) # {}
             /\ HasHistory(db, loc[s].username)
          THEN deleted_with_history \cup {loc[s].username}
          ELSE deleted_with_history
    /\ UNCHANGED <<committed, now, session, page, edit_contact>>

\* An add that stores whatever bytes it is given.
InsertAnyNote(d, username, title, uploaded_file, t) ==
    [store |-> InsertNote(d, username, title, uploaded_file, t),
     executed |-> TRUE, error |-> None]

\* add_student_note(username, title, uploaded_file): the empty-file check
\* before get_connection, then the INSERT.  store is the tables after the
\* call's statement, executed whether a statement ran, error the value the
\* call returns once its with-block is left.
add_student_note(d, username, title, uploaded_file, t) ==
    IF uploaded_file.data = ""
    THEN [store |-> d, executed |-> FALSE, error |-> "Uploaded file is empty."]
    ELSE IF NoteInsertFails(d, username)
    THEN [store |-> d, executed |-> TRUE, error |-> "FOREIGN KEY constraint failed"]
    ELSE [store |-> InsertNote(d, username, title, uploaded_file, t),
          executed |-> TRUE, error |-> None]

\* add_broadcast(students, title, file_name, mime_type, bytes): add applied to
\* each listed student in turn, each in a call of its own, and the outcomes
\* counted; a failed add does not stop the ones after it.
RECURSIVE add_broadcast(_, _, _, _, _)
add_broadcast(d, students, title, uploaded_file, t) ==
    IF students = << >>
    THEN [store |-> d, succeeded |-> 0, failed |-> 0]
    ELSE LET call == add_student_note(d, Head(students), title, uploaded_file, t)
             rest == add_broadcast(call.store, Tail(students), title, uploaded_file, t)
         IN  IF call.error = None
             THEN [rest EXCEPT !.succeeded = @ + 1]
             ELSE [rest EXCEPT !.failed = @ + 1]

\* The "Upload Academic Note" button with a file chosen: add_student_note up
\* to the exit of its with-block; an error returned before any statement is
\* shown and the page drawn.
AddStudentNote(s) ==
    /\ pc[s] = "add_student_note"
    /\ UNCHANGED <<committed, now, session, deleted_with_history, edit_contact>>
    /\ LET uploaded_file == [name |-> loc[s].a, type |-> "", data |-> loc[s].b]
           title_to_use == Or("", uploaded_file.name)
           call == add_student_note(db, loc[s].username, title_to_use, uploaded_file, now) IN
        /\ db' = call.store
        /\ IF ~call.executed
           THEN Shows(s, "admin")
           ELSE /\ UNCHANGED page
                /\ loc' = [loc EXCEPT ![s].op = "add_student_note"]
                /\ pc' = [pc EXCEPT ![s] = IF call.error # None THEN "rollback" ELSE "commit"]

\* attachments = fetch_student_notes(selected_username) and the "Delete"
\* button of one of them.
FetchStudentNotes(s) ==
    /\ pc[s] = "fetch_student_notes"
    /\ UNCHANGED <<db, committed, now, session, deleted_with_history, edit_contact>>
    /\ IF NoteRows(db, loc[s].username) = {}
       THEN Shows(s, "admin")
       ELSE \E note \in NoteRows(db, loc[s].username) :
               /\ loc' = [loc EXCEPT ![s].note_id = note.id]
               /\ pc' = [pc EXCEPT ![s] = "delete_student_note"]
               /\ UNCHANGED page

\* delete_student_note: the DELETE inside the with-block.
DeleteStudentNote(s) ==
    /\ pc[s] = "delete_student_note"
    /\ db' = DeleteNoteRow(db, loc[s].note_id)
    /\ pc' = [pc EXCEPT ![s] = "commit"]
    /\ loc' = [loc EXCEPT ![s].op = "delete_student_note"]
    /\ UNCHANGED <<committed, now, session, page, deleted_with_history, edit_contact>>

\* The "Log Out" button at the foot of the dashboard.
AdminLogout(s) ==
    /\ pc[s] = "render_admin_dashboard"
    /\ loc[s].event = "logout"
    /\ logout(s)
    /\ UNCHANGED <<db, committed, now, deleted_with_history, edit_contact>>

\* ----------------------------------------------- render_student_dashboard
\* SELECT status FROM attendance WHERE student_username = ? AND attendance_date = ?
AttendanceRows(d, username, attendance_date) ==
    {r \in d.attendance :
        r.student_username = username /\ r.attendance_date = attendance_date}

get_attendance_status(d, username, attendance_date) ==
    IF AttendanceRows(d, username, attendance_date) = {}
    THEN None
    ELSE (CHOOSE r \in AttendanceRows(d, username, attendance_date) : TRUE).status

\* A plain INSERT on a table without UNIQUE(student_username, attendance_date):
\* the colliding rows stay.
InsertAttendance(d, username, attendance_date, status, t) ==
    [d EXCEPT !.seq_attendance = @ + 1,
              !.attendance = @ \cup
                 {[id |-> d.seq_attendance + 1, student_username |-> username,
                   attendance_date |-> attendance_date, status |-> status,
                   marked_at |-> t]}]

\* INSERT OR REPLACE INTO attendance: the rows that collide on
\* UNIQUE(student_username, attendance_date) are deleted, then the new row is
\* inserted under a fresh id, marked_at defaulting to datetime('now').
InsertOrReplaceAttendance(d, username, attendance_date, status, t) ==
    [d EXCEPT !.seq_attendance = @ + 1,
              !.attendance =
                 (@ \ AttendanceRows(d, username, attendance_date)) \cup
                 {[id |-> d.seq_attendance + 1, student_username |-> username,
                   attendance_date |-> attendance_date, status |-> status,
                   marked_at |-> t]}]

AttendanceInsertFails(d, username) == foreign_keys /\ StudentRows(d, username) = {}

\* A dashboard drawn for a fixed student, whoever the session is.
DefaultStudentUsername(sess) == DEFAULT_STUDENTS[2].username

\* The username main hands to render_student_dashboard.
DashboardUsername(sess) == sess.current_user

\* The contact form handing every field it could reach to update_student.
ProfileUpdates(new_email, new_phone) ==
    [email |-> Or(new_email, "Not provided"), phone |-> new_phone, notes |-> ""]

\* updates of the "Save Contact Info" button.
ContactUpdates(new_email, new_phone) ==
    [email |-> Or(new_email, "Not provided"), phone |-> new_phone]

\* record = fetch_student(username): without a record only "Log Out" is
\* drawn; with one, the profile tab: the pencil button flips the student's
\* edit_contact key, "Save Contact Info" goes to update_student with the two
\* contact fields, and any other run goes on to the attendance tab.
StudentRecord(s) ==
    /\ pc[s] = "render_student_dashboard"
    /\ loc[s].event # "logout"
    /\ LET username == DashboardUsername(session[s]) IN
        IF fetch_student(db, username) = << >>
        THEN /\ Shows(s, "missing")
             /\ UNCHANGED edit_contact
        ELSE IF loc[s].event = "contact" /\ username \in edit_contact[s]
        THEN /\ loc' = [loc EXCEPT ![s].username = username,
                                   ![s].updates = ContactUpdates(loc[s].a, loc[s].b)]
             /\ pc' = [pc EXCEPT ![s] = "update_student"]
             /\ UNCHANGED <<page, edit_contact>>
        ELSE /\ loc' = [loc EXCEPT ![s].username = username,
                                   ![s].today = today_str(now)]
             /\ pc' = [pc EXCEPT ![s] = "get_attendance_status"]
             /\ edit_contact' =
                   IF loc[s].event = "edit"
                   THEN [edit_contact EXCEPT ![s] =
                            IF username \in @ THEN @ \ {username} ELSE @ \cup {username}]
                   ELSE edit_contact
             /\ UNCHANGED page
    /\ UNCHANGED <<db, committed, now, session, deleted_with_history>>

\* today_status = get_attendance_status(username, today_str); a run that a
\* mark button started goes on to mark_attendance, any other draws the page,
\* the mark buttons disabled once today has a status.
TodayStatus(s) ==
    /\ pc[s] = "get_attendance_status"
    /\ LET today_status == get_attendance_status(db, loc[s].username, loc[s].today) IN
        IF loc[s].event = "mark"
        THEN /\ pc' = [pc EXCEPT ![s] = "mark_attendance"]
             /\ UNCHANGED <<page, loc>>
        ELSE Shows(s, IF today_status = None THEN "student" ELSE "student_marked")
    /\ UNCHANGED <<db, committed, now, session, deleted_with_history, edit_contact>>

\* mark_attendance(username, today_str, "present" or "absent"): the INSERT OR
\* REPLACE inside the with-block.
MarkAttendance(s) ==
    /\ pc[s] = "mark_attendance"
    /\ \E status \in Statuses :
        /\ loc' = [loc EXCEPT ![s].op = "mark_attendance", ![s].a = status, ![s].at = now]
        /\ IF AttendanceInsertFails(db, loc[s].username)
           THEN /\ pc' = [pc EXCEPT ![s] = "rollback"]
                /\ UNCHANGED db
           ELSE /\ db' = InsertOrReplaceAttendance(db, loc[s].username, loc[s].today,
                                                   status, now)
                /\ pc' = [pc EXCEPT ![s] = "commit"]
    /\ UNCHANGED <<committed, now, session, page, deleted_with_history, edit_contact>>

\* ------------------------------------------------ render_attendance_calendar
\* The calendar date of the day today_str numbers 0: date.today() when the
\* deployment starts, the last day of a February.
FirstDate == [year |-> 2025, month |-> 2, day |-> 28]

\* The "Year" selectbox: range(today.year - 1, today.year + 2).
YearOptions == (FirstDate.year - 1)..(FirstDate.year + 1)

\* The "Month" selectbox: range(1, 13).
MonthOptions == 1..12

\* The months looked at: a leap February, the month the deployment starts in
\* and the one after, and the last month offered.
CalendarInputs ==
    { <<FirstDate.year - 1, 2>>, <<FirstDate.year, FirstDate.month>>,
      <<FirstDate.year, FirstDate.month + 1>>, <<FirstDate.year + 1, 12>> }

\* calendar.isleap
isleap(year) == (year % 4 = 0 /\ year % 100 # 0) \/ year % 400 = 0

\* calendar.monthrange(year, month)[1]
DaysInMonth(year, month) ==
    CASE month = 2 -> IF isleap(year) THEN 29 ELSE 28
      [] month \in {4, 6, 9, 11} -> 30
      [] OTHER -> 31

\* Days from 1 January of the first year offered to the first of the month.
DaysBefore(year, month) ==
    365 * (year - (FirstDate.year - 1))
      + Cardinality({y \in (FirstDate.year - 1)..(year - 1) : isleap(y)})
      + <<0, 31, 59, 90, 120, 151, 181, 212, 243, 273, 304, 334>>[month]
      + (IF month > 2 /\ isleap(year) THEN 1 ELSE 0)

\* date(year, month, day).weekday(), Monday = 0: 1 January 2024 is a Monday.
weekday(year, month, day) == (DaysBefore(year, month) + day - 1) % 7

\* f"{year}-{month:02d}-{day:02d}", as the day number that today_str gives
\* on that date: the two zero-padded forms are equal exactly for equal dates.
date_str(year, month, day) ==
    (DaysBefore(year, month) + day - 1)
        - (DaysBefore(FirstDate.year, FirstDate.month) + FirstDate.day - 1)

\* calendar.Calendar().monthdayscalendar(year, month): whole weeks from
\* Monday, 0 for the days of the neighbouring months.
monthdayscalendar(year, month) ==
    LET lead == weekday(year, month, 1)
        weeks == (lead + DaysInMonth(year, month) + 6) \div 7
    IN  [week \in 1..weeks |->
            [idx \in 1..7 |->
                LET day == (week - 1) * 7 + idx - lead
                IN  IF day \in 1..DaysInMonth(year, month) THEN day ELSE 0]]

\* {record["attendance_date"]: record["status"] for record in records}.get(key)
RECURSIVE DictGet(_, _)
DictGet(attendance_records, key) ==
    IF attendance_records = << >> THEN None
    ELSE LET last == attendance_records[Len(attendance_records)] IN
         IF last.attendance_date = key THEN last.status
         ELSE DictGet(SubSeq(attendance_records, 1, Len(attendance_records) - 1), key)

\* A calendar that looks a day up by its day of the month alone.
CalendarOfAnyMonth(d, username, year, month) ==
    LET attendance_records == fetch_attendance(d, username)
        month_days == monthdayscalendar(year, month)
    IN  [week \in DOMAIN month_days |->
            [idx \in 1..7 |->
                LET day == month_days[week][idx]
                    status == DictGet(attendance_records,
                                      date_str(FirstDate.year, FirstDate.month, day))
                IN  IF day = 0 THEN [day |-> 0, label |-> ""]
                    ELSE [day |-> day,
                          label |-> IF status = "present" THEN "P"
                                    ELSE IF status = "absent" THEN "A" ELSE ""]]]

\* render_attendance_calendar(username, year, month): the boxes drawn, week
\* by week; day 0 is the empty box of a day outside the month.
render_attendance_calendar(d, username, year, month) ==
    LET attendance_records == fetch_attendance(d, username)
        month_days == monthdayscalendar(year, month)
    IN  [week \in DOMAIN month_days |->
            [idx \in 1..7 |->
                LET day == month_days[week][idx]
                    status == DictGet(attendance_records, date_str(year, month, day))
                IN  IF day = 0 THEN [day |-> 0, label |-> ""]
                    ELSE [day |-> day,
                          label |-> IF status = "present" THEN "P"
                                    ELSE IF status = "absent" THEN "A" ELSE ""]]]

\* How many of the records have the status.
CountStatus(attendance_records, status) ==
    Cardinality({i \in DOMAIN attendance_records : attendance_records[i].status = status})

\* (present_count / total_count * 100) if total_count > 0 else 0, as the
\* "Attendance %" metric prints it with one decimal: in tenths of a percent.
attendance_percentage(present_count, total_count) ==
    IF total_count > 0
    THEN (present_count * 2000 + total_count) \div (2 * total_count)
    ELSE 0

\* Statistics that count every record as present.
StatisticsOfPresence(attendance_records) ==
    [drawn |-> attendance_records # << >>,
     total_count |-> Len(attendance_records),
     present_count |-> Len(attendance_records),
     absent_count |-> CountStatus(attendance_records, "absent"),
     attendance_percentage |->
        attendance_percentage(Len(attendance_records), Len(attendance_records))]

\* The attendance statistics of the student dashboard, from
\* attendance_records = fetch_attendance(username): the four metrics, drawn
\* only when there is a record.
attendance_statistics(attendance_records) ==
    [drawn |-> attendance_records # << >>,
     total_count |-> Len(attendance_records),
     present_count |-> CountStatus(attendance_records, "present"),
     absent_count |-> CountStatus(attendance_records, "absent"),
     attendance_percentage |->
        attendance_percentage(CountStatus(attendance_records, "present"),
                              Len(attendance_records))]

\* The "Log Out" button: of the page without a record, or at the foot of the
\* dashboard.
StudentLogout(s) ==
    /\ pc[s] = "render_student_dashboard"
    /\ loc[s].event = "logout"
    /\ logout(s)
    /\ UNCHANGED <<db, committed, now, deleted_with_history, edit_contact>>

\* ---------------------------------------------------------- specification
\* The steps every page run is made of.
Run(s) ==
    \/ Interact(s)
    \/ InitDbAdmin(s)
    \/ InitDbSelect(s)
    \/ InitDbSeed(s)
    \/ InitDbRollback(s)
    \/ Commit(s)
    \/ RenderLogin(s)
    \/ LoginAdmin(s)
    \/ LoginStudent(s)

\* The administrator's registry work: adding and deleting students.
Registry(s) ==
    \/ RenderAdminDashboard(s)
    \/ AdminLogout(s)
    \/ AddSubmitted(s)
    \/ AddStudent(s)
    \/ Rollback(s)
    \/ SelectStudent(s)
    \/ FetchSelected(s)
    \/ DeleteStudent(s)

\* The student's dashboard: the attendance check-in.
Ledger(s) ==
    \/ StudentRecord(s)
    \/ TodayStatus(s)
    \/ MarkAttendance(s)
    \/ StudentLogout(s)

RegistryKinds == {"login", "logout", "add", "delete"}
LedgerKinds == {"login", "logout", "mark", "delete"}

\* Students check in while administrators add and delete students.
Next ==
    \/ Tick
    \/ \E s \in Sessions : InitDbCommit(s, RegistryKinds \cup LedgerKinds, {"admin123"})
    \/ \E s \in Sessions : Run(s)
    \/ \E s \in Sessions : Registry(s)
    \/ \E s \in Sessions : Ledger(s)

Spec == Init /\ [][Next]_vars

\* Students check in while administrators delete students.
NextLedger ==
    \/ Tick
    \/ \E s \in Sessions : InitDbCommit(s, LedgerKinds, {})
    \/ \E s \in Sessions : Run(s)
    \/ \E s \in Sessions : RenderAdminDashboard(s)
    \/ \E s \in Sessions : AdminLogout(s)
    \/ \E s \in Sessions : SelectStudent(s)
    \/ \E s \in Sessions : FetchSelected(s)
    \/ \E s \in Sessions : DeleteStudent(s)
    \/ \E s \in Sessions : Ledger(s)

SpecLedger == Init /\ [][NextLedger]_vars

\* Administrators add and delete students; students only log in and out.
NextRegistry ==
    \/ Tick
    \/ \E s \in Sessions : InitDbCommit(s, RegistryKinds, PasswordInputs)
    \/ \E s \in Sessions : Run(s)
    \/ \E s \in Sessions : Registry(s)
    \/ \E s \in Sessions : StudentRecord(s)
    \/ \E s \in Sessions : TodayStatus(s)
    \/ \E s \in Sessions : StudentLogout(s)

SpecRegistry == Init /\ [][NextRegistry]_vars

\* Administrators save the update form, with or without a new password.
UpdateKinds == {"login", "logout", "update"}

NextUpdate ==
    \/ \E s \in Sessions : InitDbCommit(s, UpdateKinds, {})
    \/ \E s \in Sessions : Interact(s)
    \/ \E s \in Sessions : InitDbAdmin(s)
    \/ \E s \in Sessions : InitDbSelect(s)
    \/ \E s \in Sessions : Commit(s)
    \/ \E s \in Sessions : RenderLogin(s)
    \/ \E s \in Sessions : LoginAdmin(s)
    \/ \E s \in Sessions : LoginStudent(s)
    \/ \E s \in Sessions : RenderAdminDashboard(s)
    \/ \E s \in Sessions : AdminLogout(s)
    \/ \E s \in Sessions : SelectStudent(s)
    \/ \E s \in Sessions : FetchSelected(s)
    \/ \E s \in Sessions : UpdateStudent(s)
    \/ \E s \in Sessions : StudentRecord(s)
    \/ \E s \in Sessions : TodayStatus(s)
    \/ \E s \in Sessions : StudentLogout(s)

SpecUpdate == Init /\ [][NextUpdate]_vars

\* Administrators upload and delete academic notes.
ArchiveKinds == {"login", "logout", "upload", "delete_note"}

NextArchive ==
    \/ Tick
    \/ \E s \in Sessions : InitDbCommit(s, ArchiveKinds, {})
    \/ \E s \in Sessions : Interact(s)
    \/ \E s \in Sessions : InitDbAdmin(s)
    \/ \E s \in Sessions : InitDbSelect(s)
    \/ \E s \in Sessions : Commit(s)
    \/ \E s \in Sessions : RenderLogin(s)
    \/ \E s \in Sessions : LoginAdmin(s)
    \/ \E s \in Sessions : LoginStudent(s)
    \/ \E s \in Sessions : RenderAdminDashboard(s)
    \/ \E s \in Sessions : AdminLogout(s)
    \/ \E s \in Sessions : SelectStudent(s)
    \/ \E s \in Sessions : FetchSelected(s)
    \/ \E s \in Sessions : AddStudentNote(s)
    \/ \E s \in Sessions : FetchStudentNotes(s)
    \/ \E s \in Sessions : DeleteStudentNote(s)
    \/ \E s \in Sessions : StudentRecord(s)
    \/ \E s \in Sessions : TodayStatus(s)
    \/ \E s \in Sessions : StudentLogout(s)

SpecArchive == Init /\ [][NextArchive]_vars

\* The first page runs on a new database file: the tables are empty until an
\* init_db has seeded them.
InitFresh ==
    /\ db = EmptyStore
    /\ committed = EmptyStore
    /\ now = 0
    /\ session = [s \in Sessions |-> NewSession]
    /\ page = [s \in Sessions |-> "blank"]
    /\ pc = [s \in Sessions |-> "idle"]
    /\ loc = [s \in Sessions |-> NoLocals]
    /\ deleted_with_history = {}
    /\ edit_contact = [s \in Sessions |-> {}]

\* Administrators upload and delete academic notes and delete students.
ShelfKinds == {"login", "logout", "upload", "delete_note", "delete"}

NextShelf ==
    \/ Tick
    \/ \E s \in Sessions : InitDbCommit(s, ShelfKinds, {})
    \/ \E s \in Sessions : Run(s)
    \/ \E s \in Sessions : RenderAdminDashboard(s)
    \/ \E s \in Sessions : AdminLogout(s)
    \/ \E s \in Sessions : SelectStudent(s)
    \/ \E s \in Sessions : FetchSelected(s)
    \/ \E s \in Sessions : DeleteStudent(s)
    \/ \E s \in Sessions : AddStudentNote(s)
    \/ \E s \in Sessions : FetchStudentNotes(s)
    \/ \E s \in Sessions : DeleteStudentNote(s)
    \/ \E s \in Sessions : StudentRecord(s)
    \/ \E s \in Sessions : TodayStatus(s)
    \/ \E s \in Sessions : StudentLogout(s)

SpecShelf == Init /\ [][NextShelf]_vars

\* The deployment after the administrator has uploaded a note for each of
\* two students.
Stocked(d) ==
    InsertNote(InsertNote(d, "sara", "Syllabus", [name |-> "notes.txt", type |-> "", data |-> "bytes"], 0),
               "dylan", "Syllabus", [name |-> "notes.txt", type |-> "", data |-> "bytes"], 0)

InitStocked ==
    /\ db = Stocked(Seeded(EmptyStore))
    /\ committed = Stocked(Seeded(EmptyStore))
    /\ now = 0
    /\ session = [s \in Sessions |-> NewSession]
    /\ page = [s \in Sessions |-> "blank"]
    /\ pc = [s \in Sessions |-> "idle"]
    /\ loc = [s \in Sessions |-> NoLocals]
    /\ deleted_with_history = {}
    /\ edit_contact = [s \in Sessions |-> {}]

\* Students check in while administrators delete notes and students.
DeskKinds == {"login", "mark", "delete", "delete_note"}

NextDesk ==
    \/ Tick
    \/ \E s \in Sessions : InitDbCommit(s, DeskKinds, {})
    \/ \E s \in Sessions : Run(s)
    \/ \E s \in Sessions : RenderAdminDashboard(s)
    \/ \E s \in Sessions : SelectStudent(s)
    \/ \E s \in Sessions : FetchSelected(s)
    \/ \E s \in Sessions : DeleteStudent(s)
    \/ \E s \in Sessions : FetchStudentNotes(s)
    \/ \E s \in Sessions : DeleteStudentNote(s)
    \/ \E s \in Sessions : StudentRecord(s)
    \/ \E s \in Sessions : TodayStatus(s)
    \/ \E s \in Sessions : MarkAttendance(s)

SpecDesk == InitStocked /\ [][NextDesk]_vars

\* Students edit their contact details.
ContactKinds == {"login", "logout", "edit", "contact"}

NextContact ==
    \/ Tick
    \/ \E s \in Sessions : InitDbCommit(s, ContactKinds, {})
    \/ \E s \in Sessions : Interact(s)
    \/ \E s \in Sessions : InitDbAdmin(s)
    \/ \E s \in Sessions : InitDbSelect(s)
    \/ \E s \in Sessions : Commit(s)
    \/ \E s \in Sessions : RenderLogin(s)
    \/ \E s \in Sessions : LoginAdmin(s)
    \/ \E s \in Sessions : LoginStudent(s)
    \/ \E s \in Sessions : RenderAdminDashboard(s)
    \/ \E s \in Sessions : AdminLogout(s)
    \/ \E s \in Sessions : StudentRecord(s)
    \/ \E s \in Sessions : UpdateStudent(s)
    \/ \E s \in Sessions : TodayStatus(s)
    \/ \E s \in Sessions : StudentLogout(s)

SpecContact == Init /\ [][NextContact]_vars

\* Students check in day after day; nobody is deleted.
RollcallKinds == {"login", "logout", "mark"}

NextRollcall ==
    \/ Tick
    \/ \E s \in Sessions : InitDbCommit(s, RollcallKinds, {})
    \/ \E s \in Sessions : Interact(s)
    \/ \E s \in Sessions : InitDbAdmin(s)
    \/ \E s \in Sessions : InitDbSelect(s)
    \/ \E s \in Sessions : Commit(s)
    \/ \E s \in Sessions : RenderLogin(s)
    \/ \E s \in Sessions : LoginAdmin(s)
    \/ \E s \in Sessions : LoginStudent(s)
    \/ \E s \in Sessions : RenderAdminDashboard(s)
    \/ \E s \in Sessions : AdminLogout(s)
    \/ \E s \in Sessions : Ledger(s)

SpecRollcall == Init /\ [][NextRollcall]_vars

\* The deployment seen from the start of its second day.
InitSecondDay ==
    /\ db = Seeded(EmptyStore)
    /\ committed = Seeded(EmptyStore)
    /\ now = 1
    /\ session = [s \in Sessions |-> NewSession]
    /\ page = [s \in Sessions |-> "blank"]
    /\ pc = [s \in Sessions |-> "idle"]
    /\ loc = [s \in Sessions |-> NoLocals]
    /\ deleted_with_history = {}
    /\ edit_contact = [s \in Sessions |-> {}]

\* Time passes within that day and beyond.
TickSecondDay ==
    /\ now < MaxNow + 1
    /\ now' = now + 1
    /\ UNCHANGED <<db, committed, session, page, pc, loc, deleted_with_history, edit_contact>>

\* Students check in through the second day while administrators delete
\* students.
NextSecondDay ==
    \/ TickSecondDay
    \/ \E s \in Sessions : InitDbCommit(s, LedgerKinds, {})
    \/ \E s \in Sessions : Run(s)
    \/ \E s \in Sessions : RenderAdminDashboard(s)
    \/ \E s \in Sessions : AdminLogout(s)
    \/ \E s \in Sessions : SelectStudent(s)
    \/ \E s \in Sessions : FetchSelected(s)
    \/ \E s \in Sessions : DeleteStudent(s)
    \/ \E s \in Sessions : Ledger(s)

SpecSecondDay == InitSecondDay /\ [][NextSecondDay]_vars

FreshKinds == {"login", "logout"}

NextFresh ==
    \/ Tick
    \/ \E s \in Sessions : InitDbCommit(s, FreshKinds, {})
    \/ \E s \in Sessions : Interact(s)
    \/ \E s \in Sessions : InitDbAdmin(s)
    \/ \E s \in Sessions : InitDbSelect(s)
    \/ \E s \in Sessions : InitDbSeed(s)
    \/ \E s \in Sessions : InitDbRollback(s)
    \/ \E s \in Sessions : RenderLogin(s)
    \/ \E s \in Sessions : LoginAdmin(s)
    \/ \E s \in Sessions : LoginStudent(s)
    \/ \E s \in Sessions : RenderAdminDashboard(s)
    \/ \E s \in Sessions : AdminLogout(s)
    \/ \E s \in Sessions : StudentRecord(s)
    \/ \E s \in Sessions : TodayStatus(s)
    \/ \E s \in Sessions : StudentLogout(s)

SpecFresh == InitFresh /\ [][NextFresh]_vars

\* ------------------------------------------------------------------ claims
\* The (student_username, attendance_date) pairs a table has rows for.
Keys(rows) == {<<r.student_username, r.attendance_date>> : r \in rows}

\* C1: in every reachable state the attendance table, as the connection sees
\* it and as committed, holds at most one row per (student_username,
\* attendance_date), also when two sessions mark the same key concurrently.
C1_OneRowPerKey ==
    \A d \in {db, committed} : \A k \in Keys(d.attendance) :
        Cardinality(AttendanceRows(d, k[1], k[2])) <= 1

\* Two sessions have both executed their mark of the same key, neither has
\* committed, and the later mark has replaced the earlier row.
C1_ConcurrentMarks ==
    \E s, t \in Sessions :
        /\ s # t
        /\ pc[s] = "commit" /\ loc[s].op = "mark_attendance"
        /\ pc[t] = "commit" /\ loc[t].op = "mark_attendance"
        /\ loc[s].username = loc[t].username /\ loc[s].today = loc[t].today
        /\ db.seq_attendance = 2
        /\ Cardinality(AttendanceRows(db, loc[s].username, loc[s].today)) = 1


\* C2: in every reachable state every attendance row and every document
\* belongs to a username that has a row in students.
C2_NoOrphans ==
    \A r \in db.attendance \cup db.student_notes :
        StudentRows(db, r.student_username) # {}

\* The page run of session s takes the step from pc value from to pc value to.
Steps(s, from, to) == pc[s] = from /\ pc'[s] = to

\* C3: right after delete_student has deleted the row of an existing student,
\* fetch_attendance and fetch_student_notes of that username are empty.
C3_DeleteEmptiesHistory ==
    [][\A s \in Sessions :
          Steps(s, "delete_student", "commit") /\ StudentRows(db, loc[s].username) # {}
          => /\ StudentRows(db', loc[s].username) = {}
             /\ fetch_attendance(db', loc[s].username) = << >>
             /\ fetch_student_notes(db', loc[s].username) = << >>]_vars

\* C4: when add_student creates a StudentRecord under a username that was
\* deleted while it had attendance rows or documents, fetch_attendance and
\* fetch_student_notes of that username are empty right after the creation.
C4_NoResidualHistory ==
    [][\A s \in Sessions :
          /\ Steps(s, "add_student", "commit")
          /\ loc[s].a \in deleted_with_history
          => /\ fetch_attendance(db', loc[s].a) = << >>
             /\ fetch_student_notes(db', loc[s].a) = << >>]_vars

\* C5: a mark leaves its status as the status of its key, in exactly one row,
\* and when a mark_attendance call returns without an error its key still has
\* exactly one row.
C5_LastWriteWins ==
    [][\A s \in Sessions :
          /\ Steps(s, "mark_attendance", "commit")
             => /\ get_attendance_status(db', loc[s].username, loc[s].today) = loc'[s].a
                /\ Cardinality(AttendanceRows(db', loc[s].username, loc[s].today)) = 1
          /\ Steps(s, "commit", "init_db") /\ loc[s].op = "mark_attendance"
             => \A d \in {db', committed'} :
                   Cardinality(AttendanceRows(d, loc[s].username, loc[s].today)) = 1]_vars

\* The submitted login form of session s matches an admins row.
AdminMatch(s) == authenticate_admin(db, loc[s].a, loc[s].b) # None

\* C6: a submitted login that matches an admins row makes the session an
\* admin session, whether or not a students row matches too; authenticate_student
\* is reached, and a session becomes a student session, only when no admins
\* row matched.
C6_AdminFirst ==
    [][\A s \in Sessions :
          /\ pc[s] = "render_login" /\ loc[s].event = "login" /\ pc'[s] # pc[s]
             /\ AdminMatch(s)
             => session'[s].authenticated /\ session'[s].role = "admin"
          /\ pc'[s] = "login_student" /\ pc[s] # "login_student"
             => pc[s] = "render_login" /\ ~AdminMatch(s)
          /\ session'[s].role = "student" /\ session[s].role # "student"
             => ~AdminMatch(s)]_vars

\* A session has just logged in as the administrator with a username and
\* password that a students row carries too.
C6_BothMatch ==
    \E s \in Sessions :
        /\ pc[s] = "init_db" /\ page[s] = "login"
        /\ session[s] = [authenticated |-> TRUE, role |-> "admin",
                         current_user |-> DEFAULT_ADMIN.full_name]
        /\ \A d \in {db, committed} :
              authenticate_student(d, DEFAULT_ADMIN.username, DEFAULT_ADMIN.password) # << >>

\* The state of the session gate that the three session keys stand for.
Gate(sess) ==
    CASE sess = NewSession -> "anonymous"
      [] sess.authenticated /\ sess.role = "admin" -> "admin_session"
      [] sess.authenticated /\ sess.role = "student" -> "student_session"
      [] OTHER -> "invalid"

\* The page run of session s takes the step of a logout button.
LogsOut(s) ==
    /\ pc[s] \in {"render_admin_dashboard", "render_student_dashboard"}
    /\ loc[s].event = "logout"
    /\ pc'[s] # pc[s]

\* C7: every session starts anonymous and is always anonymous, an admin
\* session or a student session, authenticated exactly when its role is admin
\* or student; it leaves anonymous only by a matching authenticate_admin or
\* authenticate_student, stays anonymous on a failed login, returns to
\* anonymous on logout and only on logout, and never goes from admin to
\* student or back directly.
C7_SessionGate ==
    /\ \A s \in Sessions : Gate(session[s]) = "anonymous"
    /\ [](\A s \in Sessions :
            /\ Gate(session[s]) \in {"anonymous", "admin_session", "student_session"}
            /\ session[s].authenticated <=> session[s].role \in {"admin", "student"}
            /\ pc[s] # "unknown_role")
    /\ [][\A s \in Sessions :
            /\ Gate(session[s]) = "anonymous" /\ Gate(session'[s]) = "admin_session"
               => pc[s] = "render_login" /\ loc[s].event = "login" /\ AdminMatch(s)
            /\ Gate(session[s]) = "anonymous" /\ Gate(session'[s]) = "student_session"
               => /\ pc[s] = "login_student"
                  /\ authenticate_student(db, loc[s].a, loc[s].b) # << >>
            /\ /\ pc[s] = "login_student" /\ pc'[s] # pc[s]
               /\ authenticate_student(db, loc[s].a, loc[s].b) = << >>
               => Gate(session'[s]) = "anonymous"
            /\ LogsOut(s) => Gate(session'[s]) = "anonymous"
            /\ Gate(session[s]) # "anonymous" /\ Gate(session'[s]) # Gate(session[s])
               => LogsOut(s) /\ Gate(session'[s]) = "anonymous"]_vars

\* A session has just logged out of the administrator's dashboard while the
\* other session is a student's.
C7_LoggedOut ==
    \E s, t \in Sessions :
        /\ pc[s] = "init_db" /\ page[s] = "admin"
        /\ Gate(session[s]) = "anonymous"
        /\ Gate(session[t]) = "student_session"

\* The page run of session s takes a step.
Acts(s) == pc'[s] # pc[s] \/ loc'[s] # loc[s]

\* C8: no step of a session that is not an admin session creates or deletes a
\* students row or a student_notes row.
C8_AdminOnly ==
    [][\A s \in Sessions :
          Acts(s) /\ Gate(session[s]) # "admin_session"
          => /\ Usernames(db') = Usernames(db)
             /\ {r.id : r \in db'.student_notes} = {r.id : r \in db.student_notes}]_vars

\* C9: a page run reads or writes the attendance of a username only in a
\* student session whose current_user is that username, and an attendance row
\* is created or replaced only by the mark_attendance of such a session, never
\* by an admin session.
C9_OwnAttendanceOnly ==
    [][/\ \A s \in Sessions :
             pc[s] \in {"get_attendance_status", "mark_attendance"}
             => /\ Gate(session[s]) = "student_session"
                /\ loc[s].username = session[s].current_user
       /\ \A r \in db'.attendance :
             r.id > db.seq_attendance
             => \E s \in Sessions :
                   /\ Steps(s, "mark_attendance", "commit")
                   /\ Gate(session[s]) = "student_session"
                   /\ session[s].current_user = r.student_username]_vars

\* A student session has just written its own attendance row while the other
\* session, an administrator's, shows the administrator's dashboard.
C9_OwnMark ==
    \E s, t \in Sessions :
        /\ pc[s] = "commit" /\ loc[s].op = "mark_attendance"
        /\ Gate(session[s]) = "student_session"
        /\ \E r \in db.attendance :
              r.id = db.seq_attendance /\ r.student_username = session[s].current_user
        /\ Gate(session[t]) = "admin_session" /\ pc[t] = "idle" /\ page[t] = "admin"

\* C10: an add of a username that is taken ends with an error and leaves the
\* students table as it was, whether fetch_student finds the username or the
\* INSERT of add_student raises on it.
C10_DuplicateCreate ==
    [][\A s \in Sessions :
          /\ /\ pc[s] = "render_admin_dashboard" /\ loc[s].event = "add" /\ Acts(s)
             /\ fetch_student(db, loc[s].a) # << >>
             => pc'[s] = "idle" /\ db'.students = db.students
          /\ Steps(s, "add_student", "rollback") => db'.students = db.students
          /\ Steps(s, "rollback", "idle") /\ loc[s].op = "add_student"
             => db'.students = db.students]_vars

\* The record the "Add Student" form of session s hands to add_student.
Supplied(s) == AddPayload(loc[s].a, loc[s].b, "", "", "", "")

\* C11: the INSERT of add_student leaves fetch_student(username) returning the
\* supplied fields, the blank optional ones as their defaults, and from there
\* to the return of the call the record stays so unless a delete_student
\* removes it.
C11_CreateThenGet ==
    [][\A s \in Sessions :
          /\ Steps(s, "add_student", "commit")
             => fetch_student(db', loc[s].a) = <<Supplied(s)>>
          /\ /\ pc[s] = "commit" /\ loc[s].op = "add_student"
             /\ fetch_student(db, loc[s].a) = <<Supplied(s)>>
             => \/ fetch_student(db', loc[s].a) = <<Supplied(s)>>
                \/ \E t \in Sessions :
                      Steps(t, "delete_student", "commit") /\ loc[t].username = loc[s].a]_vars

\* Patches a caller may hand to update_student: none, the contact fields, a
\* password, the program.
PatchInputs ==
    { [f \in {} |-> ""],
      [email |-> "sara@example.com", phone |-> ""],
      [password |-> "admin123"],
      [program |-> "Physics"] }

\* From tables d to tables e only the fields updates names have changed, and
\* only on the students row of username.
OnlyPatched(d, e, username, updates) ==
    /\ {r \in e.students : r.username # username} = {r \in d.students : r.username # username}
    /\ Cardinality(StudentRows(e, username)) = Cardinality(StudentRows(d, username))
    /\ \A r \in StudentRows(d, username) : \A q \in StudentRows(e, username) :
          \A f \in DOMAIN r : q[f] = IF f \in DOMAIN updates THEN updates[f] ELSE r[f]
    /\ [e EXCEPT !.students = {}] = [d EXCEPT !.students = {}]

\* C12: update_student changes only the fields its patch names, on the row of
\* its username, and nothing else in the tables; with an empty patch it
\* returns None without executing a statement.  This holds of every patch
\* applied to any reachable tables, and of every update the forms make, whose
\* commit changes no row either.
C12_UpdateFrame ==
    /\ [](\A username \in UsernameInputs : \A updates \in PatchInputs :
            LET call == update_student(db, username, updates) IN
                /\ OnlyPatched(db, call.store, username, updates)
                /\ DOMAIN updates = {}
                   => call.store = db /\ ~call.executed /\ call.error = None)
    /\ [][\A s \in Sessions :
            /\ pc[s] = "update_student" /\ Acts(s)
               => /\ OnlyPatched(db, db', loc[s].username, loc[s].updates)
                  /\ committed' = committed
            /\ pc[s] = "commit" /\ loc[s].op = "update_student" /\ Acts(s)
               => db' = db]_vars

\* An update that set a new password, and nothing else, on a record the other
\* fields of which the form sent back as fetched, has been executed.
C12_PasswordPatched ==
    \E s \in Sessions :
        /\ pc[s] = "commit" /\ loc[s].op = "update_student"
        /\ "password" \in DOMAIN loc[s].updates
        /\ \E r \in StudentRows(db, loc[s].username) : \E q \in StudentRows(committed, loc[s].username) :
              /\ r.password = loc[s].updates.password /\ q.password # r.password
              /\ [r EXCEPT !.password = q.password] = q

\* C13: an update_student or a delete_student of a username that has no
\* students row, and a delete_student_note of an id that no document has, end
\* in the error branch of their caller, not in its success branch.
C13_NotFound ==
    [][\A s \in Sessions :
          /\ /\ pc[s] \in {"update_student", "delete_student"} /\ Acts(s)
             /\ StudentRows(db, loc[s].username) = {}
             => pc'[s] = "rollback"
          /\ /\ pc[s] = "delete_student_note" /\ Acts(s)
             /\ \A r \in db.student_notes : r.id # loc[s].note_id
             => pc'[s] = "rollback"]_vars

\* The page run of session s takes a step of init_db.
InInitDb(s) ==
    /\ pc[s] \in {"idle", "init_db", "init_select", "init_seed", "init_rollback", "init_commit"}
    /\ Acts(s)

\* C14: a step of init_db keeps every admins and students row as it is, adds
\* only default students whose username had no row, and leaves the
\* attendance and student_notes rows unchanged.
C14_InitIdempotent ==
    [][\A s \in Sessions :
          InInitDb(s)
          => /\ db.admins \subseteq db'.admins
             /\ db.students \subseteq db'.students
             /\ \A r \in db'.students \ db.students :
                   /\ r.username \notin Usernames(db)
                   /\ \E i \in DOMAIN DEFAULT_STUDENTS : r = DEFAULT_STUDENTS[i]
             /\ Cardinality(db'.admins) = Cardinality({DEFAULT_ADMIN} \cup db.admins)
             /\ db'.attendance = db.attendance
             /\ db'.student_notes = db.student_notes]_vars

\* The file an upload step is about to hand to add_student_note.
Uploaded(s) == [name |-> loc[s].a, type |-> "", data |-> loc[s].b]

\* C15: adding a document whose payload has zero length fails with an
\* explicit error before the store is reached, and the stored documents are
\* unchanged: on every reachable store the call returns the error without
\* executing a statement, the upload step that carries an empty payload
\* leaves the connection's tables and the committed tables as they were and
\* ends with the page drawn (no commit follows), and no stored document has
\* an empty payload.
C15_EmptyPayloadRefused ==
    /\ [](\A username \in UsernameInputs : \A uploaded_file \in FileInputs :
            uploaded_file.data = "" =>
                LET call == add_student_note(db, username, uploaded_file.name, uploaded_file, now) IN
                    /\ call.error = "Uploaded file is empty."
                    /\ ~call.executed
                    /\ call.store = db)
    /\ [](\A r \in db.student_notes \cup committed.student_notes : r.data # "")
    /\ [][\A s \in Sessions :
            pc[s] = "add_student_note" /\ loc[s].b = "" /\ Acts(s) =>
                /\ db' = db
                /\ committed' = committed
                /\ pc'[s] = "idle"
                /\ page'[s] = "admin"]_vars

\* An upload with an empty payload is refused while a document is stored.
C15_EmptyUploadRefused ==
    \E s \in Sessions :
        /\ pc[s] = "add_student_note"
        /\ Uploaded(s).data = ""
        /\ Uploaded(s).name # ""
        /\ committed.student_notes # {}
        /\ LET call == add_student_note(db, loc[s].username, Uploaded(s).name, Uploaded(s), now) IN
            call.error = "Uploaded file is empty." /\ call.store = db

\* The students a broadcast lists: the seeded ones, as the caller read them.
Listed == [i \in DOMAIN DEFAULT_STUDENTS |-> DEFAULT_STUDENTS[i].username]

\* C16: a broadcast over the listed students adds to each independently and
\* returns counts with succeeded + failed = the number listed; exactly the
\* listed students whose record no longer exists count as failed, and every
\* other listed student's attachment can be read afterwards.
C16_BroadcastCounts ==
    \A uploaded_file \in {f \in FileInputs : f.data # ""} :
        LET result == add_broadcast(db, Listed, "Syllabus", uploaded_file, now)
            Missing == {i \in DOMAIN Listed : StudentRows(db, Listed[i]) = {}}
        IN  /\ result.succeeded + result.failed = Len(Listed)
            /\ result.failed = Cardinality(Missing)
            /\ \A i \in DOMAIN Listed \ Missing :
                 \E j \in DOMAIN fetch_student_notes(result.store, Listed[i]) :
                    /\ fetch_student_notes(result.store, Listed[i])[j].title = "Syllabus"
                    /\ fetch_student_notes(result.store, Listed[i])[j].data = uploaded_file.data

\* The default students present in d.
SeededStudents(d) ==
    {i \in DOMAIN DEFAULT_STUDENTS : DEFAULT_STUDENTS[i].username \in Usernames(d)}

\* Nothing or all of init_db's seeding: the administrator and every default
\* student, or no row at all.
WhollySeeded(d) ==
    \/ d.admins = {} /\ d.students = {}
    \/ d.admins = {DEFAULT_ADMIN} /\ SeededStudents(d) = DOMAIN DEFAULT_STUDENTS

\* C17: the seeding of a new database is atomic under concurrent page runs:
\* the committed tables never hold a part of it, and a session that reads
\* the students (init_db's own SELECT, a login's lookups) finds none or all
\* of the default students, never some.
C17_AtomicSeeding ==
    /\ [] WhollySeeded(committed)
    /\ [][\A s \in Sessions :
            pc[s] \in {"init_select", "render_login", "login_student"} /\ Acts(s) =>
                SeededStudents(db) \in {{}, DOMAIN DEFAULT_STUDENTS}]_vars

\* C18: when a mark_attendance(u, date, "present") call returns and an entry
\* (u, date, "present") of an earlier call was already committed, the key has
\* exactly one entry, its status is "present" and its marked_at is the time
\* of the returning call's statement.
C18_SecondMarkStamps ==
    [][\A s \in Sessions :
          /\ Steps(s, "commit", "init_db")
          /\ loc[s].op = "mark_attendance" /\ loc[s].a = "present"
          /\ \E r \in AttendanceRows(committed, loc[s].username, loc[s].today) :
                r.status = "present" /\ r.marked_at < loc[s].at
          => \E r \in committed'.attendance :
                /\ AttendanceRows(committed', loc[s].username, loc[s].today) = {r}
                /\ r.status = "present"
                /\ r.marked_at = loc[s].at]_vars

\* C19: once a status is stored for a student's day, a later mark does not
\* change it: a mark_attendance statement on a key whose status is committed
\* leaves that status as the key's status, also when the run that makes it
\* belongs to a second session of the same student whose page was drawn
\* while the day was unmarked.
C19_StoredStatusKept ==
    [][\A s \in Sessions :
          /\ Steps(s, "mark_attendance", "commit")
          /\ get_attendance_status(committed, loc[s].username, loc[s].today) # None
          => get_attendance_status(db', loc[s].username, loc[s].today)
                = get_attendance_status(committed, loc[s].username, loc[s].today)]_vars

\* The longest list of records the statistics are computed for.
MaxRecords == 5

\* Lists of attendance records, one per day: every number of present days
\* followed by every number of absent days, up to MaxRecords days in all.
RecordInputs ==
    UNION {{[i \in 1..n |-> [attendance_date |-> i,
                             status |-> IF i <= present THEN "present" ELSE "absent",
                             marked_at |-> 0]] :
                present \in 0..n} : n \in 0..MaxRecords}

\* The statistics are those of the records: total = number of records,
\* present and absent counted by status and adding up to the total, and the
\* percentage the tenth of a percent nearest to present / total * 100, 0
\* when there is no record.
Summarises(stats, attendance_records) ==
    LET total == stats.total_count
        present == stats.present_count
        absent == stats.absent_count
        percentage == stats.attendance_percentage
        off == percentage * total - 1000 * present
    IN  /\ total = Len(attendance_records)
        /\ present = CountStatus(attendance_records, "present")
        /\ absent = CountStatus(attendance_records, "absent")
        /\ total = present + absent
        /\ percentage \in 0..1000
        /\ 2 * off <= total /\ -2 * off <= total
        /\ total = 0 => percentage = 0 /\ ~stats.drawn

\* C20: the statistics of a student's attendance give total = number of the
\* student's entries, total = present_count + absent_count and the percentage
\* present_count / total * 100, 0 without a fault when there is no entry:
\* for the entries of every student in every reachable state of the tables
\* (one entry per stored row of the student), and for every number of present
\* and absent records up to MaxRecords in all (3 present and 2 absent: 5, 3,
\* 60.0).
C20_Summary ==
    /\ \A username \in {DEFAULT_STUDENTS[i].username : i \in DOMAIN DEFAULT_STUDENTS} :
          LET attendance_records == fetch_attendance(db, username)
              stats == attendance_statistics(attendance_records)
          IN  /\ Summarises(stats, attendance_records)
              /\ Len(attendance_records)
                    = Cardinality({r \in db.attendance : r.student_username = username})
    /\ \A attendance_records \in RecordInputs :
          LET stats == attendance_statistics(attendance_records)
          IN  /\ Summarises(stats, attendance_records)
              /\ (stats.present_count = 3 /\ stats.total_count = 5)
                    => stats.attendance_percentage = 600

\* A student with one present and one absent entry stored: 2, 1, 1, 50.0.
C20_HalfPresent ==
    \E username \in Usernames(committed) :
        LET stats == attendance_statistics(fetch_attendance(committed, username)) IN
            /\ stats.drawn
            /\ stats.total_count = 2
            /\ stats.present_count = 1
            /\ stats.absent_count = 1
            /\ stats.attendance_percentage = 500

\* The label the calendar of (year, month) draws for the day, "none" when it
\* draws no box for that day.
LabelOf(view, day) ==
    IF \E week \in DOMAIN view : \E idx \in 1..7 : view[week][idx].day = day
    THEN LET week == CHOOSE week \in DOMAIN view : \E idx \in 1..7 : view[week][idx].day = day
             idx == CHOOSE idx \in 1..7 : view[week][idx].day = day
         IN  view[week][idx].label
    ELSE "none"

\* The student has an entry with the status on that date.
HasEntry(d, username, year, month, day, status) ==
    \E r \in d.attendance :
        /\ r.student_username = username
        /\ r.attendance_date = date_str(year, month, day)
        /\ r.status = status

\* The days of the boxes drawn, read week by week, the empty boxes left out.
DaysDrawn(view) ==
    LET flat == [k \in 1..(7 * Len(view)) |-> view[((k - 1) \div 7) + 1][((k - 1) % 7) + 1].day]
    IN  SelectSeq(flat, LAMBDA day : day # 0)

\* The calendar drawn is the month view of the student's entries.
IsMonthView(view, d, username, year, month) ==
    /\ DaysDrawn(view) = [day \in 1..DaysInMonth(year, month) |-> day]
    /\ \A week \in DOMAIN view : \A idx \in 1..7 :
          LET cell == view[week][idx] IN
             cell.day # 0 =>
                /\ idx - 1 = weekday(year, month, cell.day)
                /\ cell.label = "P" <=> HasEntry(d, username, year, month, cell.day, "present")
                /\ cell.label = "A" <=> HasEntry(d, username, year, month, cell.day, "absent")
                /\ cell.label \in {"P", "A", ""}

\* C21: whenever a page run draws a student's dashboard, the calendar of a
\* month and year selected shows exactly the days 1..N of that
\* month in order, N its number of days, each in the column of its weekday
\* counted from Monday; a day is labelled present or absent exactly when
\* that student has an entry with that status on that date and is unmarked
\* otherwise, whatever entries other students or other months have.
C21_MonthView ==
    \A s \in Sessions :
        pc[s] = "get_attendance_status" /\ loc[s].event # "mark" =>
            \A selected \in CalendarInputs :
            \E view \in {render_attendance_calendar(db, loc[s].username, selected[1], selected[2])} :
                /\ selected[1] \in YearOptions /\ selected[2] \in MonthOptions
                /\ IsMonthView(view, db, loc[s].username, selected[1], selected[2])

\* A student present on the last day of February and absent on the first of
\* March: February shows day 28 present and no day 29, March shows day 1
\* absent and day 28 unmarked.
C21_AcrossMonths ==
    \E username \in Usernames(db) :
        LET february == render_attendance_calendar(db, username, 2025, 2)
            march == render_attendance_calendar(db, username, 2025, 3)
        IN  /\ HasEntry(db, username, 2025, 2, 28, "present")
            /\ HasEntry(db, username, 2025, 3, 1, "absent")
            /\ LabelOf(february, 28) = "P"
            /\ LabelOf(february, 29) = "none"
            /\ LabelOf(march, 1) = "A"
            /\ LabelOf(march, 28) = ""

\* From tables d to tables e at most the email and the phone of username's
\* students row have changed.
ContactChange(d, e, username) ==
    /\ {r \in e.students : r.username # username} = {r \in d.students : r.username # username}
    /\ Cardinality(StudentRows(e, username)) = Cardinality(StudentRows(d, username))
    /\ \A r \in StudentRows(d, username) : \A q \in StudentRows(e, username) :
          \A f \in DOMAIN r \ {"email", "phone"} : q[f] = r[f]
    /\ [e EXCEPT !.students = {}] = [d EXCEPT !.students = {}]

\* C22: an update a student session makes is an update of the student's own
\* record that changes at most its email and phone: password, full_name,
\* program and notes of that record, every other record and every other
\* table are as before, and its commit changes no row either.
C22_ContactOnly ==
    [][\A s \in Sessions :
          session[s].role = "student" =>
             /\ pc[s] = "update_student" /\ Acts(s)
                => /\ loc[s].username = session[s].current_user
                   /\ ContactChange(db, db', loc[s].username)
                   /\ committed' = committed
             /\ pc[s] = "commit" /\ loc[s].op = "update_student" /\ Acts(s)
                => db' = db]_vars

\* A student has saved a new email and phone: the statement has run and is
\* about to be committed.
C22_ContactSaved ==
    \E s \in Sessions :
        /\ session[s].role = "student"
        /\ pc[s] = "commit" /\ loc[s].op = "update_student"
        /\ \E r \in StudentRows(committed, session[s].current_user) :
           \E q \in StudentRows(db, session[s].current_user) :
              /\ q.email # r.email /\ q.phone # r.phone
              /\ q.password = r.password /\ q.notes = r.notes /\ q.notes # ""

\* Patches that name a username of their own.
RenameInputs ==
    { [username |-> "admin"], [username |-> "dylan"],
      [username |-> "admin", program |-> "Physics"] }

\* From tables d to tables e no students row has changed its username and no
\* attendance or document row has changed at all.
UsernamesKept(d, e) ==
    /\ Cardinality(e.students) = Cardinality(d.students)
    /\ \A r \in d.students : Cardinality(StudentRows(e, r.username)) = 1
    /\ e.attendance = d.attendance
    /\ e.student_notes = d.student_notes

\* C23: no update changes a username: update_student applied to any reachable
\* tables, with a patch that names a username of its own or not, leaves every
\* students row under its username and the attendance and document rows as
\* they were, while the other fields of the patch are written; and so does
\* every update the forms make.
C23_UsernameImmutable ==
    /\ [](\A username \in UsernameInputs : \A updates \in RenameInputs \cup PatchInputs :
            LET call == update_student(db, username, updates) IN
                /\ UsernamesKept(db, call.store)
                /\ \A q \in StudentRows(call.store, username) :
                      \A f \in DOMAIN updates \ {"username"} : q[f] = updates[f])
    /\ [][\A s \in Sessions :
            pc[s] = "update_student" /\ Acts(s) => UsernamesKept(db, db')]_vars

\* An administrator has changed sara's password, and a patch that renames
\* her to a username in use and moves her to Physics would still leave her
\* row under sara, in Physics.
C23_RenameIgnored ==
    /\ \E r \in StudentRows(committed, "sara") : r.password # DEFAULT_STUDENTS[1].password
    /\ LET call == update_student(db, "sara", [username |-> "dylan", program |-> "Physics"]) IN
          /\ call.executed
          /\ \E q \in StudentRows(call.store, "sara") : q.program = "Physics"
          /\ Cardinality(StudentRows(call.store, "dylan")) = 1

\* The list holds exactly the documents of username in tables d, newest
\* upload first and, among uploads of the same instant, highest id first.
ListsDocuments(list, d, username) ==
    /\ Len(list) = Cardinality(NoteRows(d, username))
    /\ {list[i].id : i \in DOMAIN list} = {r.id : r \in NoteRows(d, username)}
    /\ \A i \in DOMAIN list : \E r \in NoteRows(d, username) :
          /\ r.id = list[i].id /\ r.title = list[i].title /\ r.data = list[i].data
          /\ r.file_name = list[i].file_name /\ r.uploaded_at = list[i].uploaded_at
    /\ \A i, j \in DOMAIN list :
          i < j => \/ list[i].uploaded_at > list[j].uploaded_at
                   \/ list[i].uploaded_at = list[j].uploaded_at /\ list[i].id > list[j].id

\* C24: fetch_student_notes(username) lists exactly the documents of that
\* username, by upload time descending and then id descending; no two
\* documents share an id, an upload takes an id above every id in the table
\* and above the sequence, and the sequence the ids are taken from never
\* goes back, so that no id is handed out a second time, after a delete or
\* otherwise.
C24_ListAndIds ==
    /\ [](\A username \in UsernameInputs \cup Usernames(db) :
            ListsDocuments(fetch_student_notes(db, username), db, username))
    /\ [](\A r, q \in db.student_notes : r.id = q.id => r = q)
    /\ [][/\ \A s \in Sessions :
               Steps(s, "add_student_note", "commit") =>
                  \E r \in db'.student_notes :
                     /\ db'.student_notes = db.student_notes \cup {r}
                     /\ r.id > db.seq_notes
                     /\ \A q \in db.student_notes : r.id > q.id
          /\ db'.seq_notes >= db.seq_notes]_vars

\* C25: every store starts with the default students seeded, so a username
\* with no students row, neither committed nor on the connection, was deleted
\* or was never created.  Such a username stays without a row, and no
\* password logs it in, over every step but the add_student of an
\* administrator's session for that very username.
C25_DeletedStaysDeleted ==
    [][\A username \in UsernameInputs \cup Usernames(db') :
          /\ fetch_student(committed, username) = << >>
          /\ fetch_student(db, username) = << >>
          => \/ /\ fetch_student(db', username) = << >>
                /\ \A password \in PasswordInputs :
                      authenticate_student(db', username, password) = << >>
             \/ \E s \in Sessions :
                   /\ Steps(s, "add_student", "commit")
                   /\ session[s].role = "admin"
                   /\ loc[s].a = username]_vars

\* C26: a student's page run that finds no students row for the session's
\* username draws a page that offers only logout, and mark_attendance
\* executes its statement for a username only in a state where that username
\* has a students row, whatever another session did since the run looked the
\* record up.
C26_NoMarkWithoutRecord ==
    [][\A s \in Sessions :
          /\ /\ pc[s] = "render_student_dashboard" /\ Acts(s)
             /\ loc[s].event # "logout"
             /\ fetch_student(db, DashboardUsername(session[s])) = << >>
             => pc'[s] = "idle" /\ Offers(page'[s]) = {"logout"}
          /\ Steps(s, "mark_attendance", "commit")
             => StudentRows(db, loc[s].username) # {}]_vars

\* The rows of a table that do not belong to username.
OfOthers(rows, username) == {r \in rows : r.student_username # username}

\* C27: the statement of mark_attendance(u, d, s) changes no attendance row
\* but those keyed (u, d) and no row of another table; the statement of
\* delete_student(u) changes no students, attendance or student_notes row of
\* another username and no admins row; the statement of
\* delete_student_note(id) removes the student_notes row with that id and
\* changes nothing else; and the exit of the with-block changes no row on
\* the connection.
C27_LocalMutations ==
    [][\A s \in Sessions :
          /\ Steps(s, "mark_attendance", "commit")
             => /\ db'.attendance \ AttendanceRows(db', loc[s].username, loc[s].today)
                      = db.attendance \ AttendanceRows(db, loc[s].username, loc[s].today)
                /\ db'.students = db.students
                /\ db'.admins = db.admins
                /\ db'.student_notes = db.student_notes
                /\ committed' = committed
          /\ Steps(s, "delete_student", "commit")
             => /\ {r \in db'.students : r.username # loc[s].username}
                      = {r \in db.students : r.username # loc[s].username}
                /\ OfOthers(db'.attendance, loc[s].username)
                      = OfOthers(db.attendance, loc[s].username)
                /\ OfOthers(db'.student_notes, loc[s].username)
                      = OfOthers(db.student_notes, loc[s].username)
                /\ db'.admins = db.admins
                /\ committed' = committed
          /\ Steps(s, "delete_student_note", "commit")
             => /\ db'.student_notes = {r \in db.student_notes : r.id # loc[s].note_id}
                /\ db'.students = db.students
                /\ db'.admins = db.admins
                /\ db'.attendance = db.attendance
                /\ committed' = committed
          /\ /\ pc[s] = "commit" /\ Acts(s)
             /\ loc[s].op \in {"mark_attendance", "delete_student", "delete_student_note"}
             => db' = db]_vars

\* A note has just been deleted while another student's note, the entries
\* of two days' check-ins and the students' records are there, a student
\* deleted before.
C27_NoteDeletedAmongOthers ==
    \E s \in Sessions :
        /\ pc[s] = "commit" /\ loc[s].op = "delete_student_note"
        /\ \A r \in db.student_notes : r.id # loc[s].note_id
        /\ db.student_notes # {}
        /\ \E r, q \in db.attendance : r.attendance_date # q.attendance_date
        /\ deleted_with_history # {}
        /\ db.students # {}

====
